---- MODULE Spec2Model ----
(***************************************************************************)
(* Model of openstack/orchestration/v1/stack.py: the Stack resource and    *)
(* its overrides of create, commit, update, check, abandon and fetch.      *)
(* The generic Resource base class, utils.urljoin and the session are      *)
(* collaborators of stack.py; they are modelled from the specification.    *)
(*                                                                         *)
(* One entity is driven by one caller.  Every operation is one action; it  *)
(* records the invocation (call), the entity as it was before (pre), the   *)
(* requests handed to the session (sent), how the call ended (outcome)     *)
(* and what it returned (ret).                                             *)
(***************************************************************************)
EXTENDS Integers, Sequences, FiniteSets, TLC

VARIABLES values, dirty, id, microversion, mutated, call, pre, sent, outcome, ret

vars == <<values, dirty, id, microversion, mutated, call, pre, sent, outcome, ret>>

\* an attribute that is not set
None == "<unset>"

\* ------------------------------------------------------------------------
\* Schema of Stack
\* ------------------------------------------------------------------------
resource_key == "stack"

base_path == <<"stacks">>

\* the attributes of the schema that the model follows
Attrs == {"name", "status", "description"}

\* resource.Body('<wire name>') of each attribute
WireName(a) ==
    CASE a = "name" -> "stack_name"
      [] a = "status" -> "stack_status"
      [] a = "description" -> "description"

AttrOf(w) == CHOOSE a \in Attrs : WireName(a) = w

\* the statuses after which Stack.fetch treats the stack as absent
TerminalStatuses == {"DELETE_COMPLETE", "ADOPT_COMPLETE"}

\* ------------------------------------------------------------------------
\* Values the caller and the server draw from
\* ------------------------------------------------------------------------
Ids == {"i1"}

AttrVals(a) ==
    CASE a = "name" -> {"n1"}
      [] a = "status" -> {"CREATE_COMPLETE", "DELETE_COMPLETE", "ADOPT_COMPLETE"}
      [] a = "description" -> {"d1", "d2"}

AllVals == Ids \cup UNION {AttrVals(a) : a \in Attrs}

\* alternate base paths a caller may pass (None: use the schema's)
AltPath == <<"alt">>

BasePathArgs == {<<>>, AltPath}

\* the microversion the session negotiates for an operation
Microversions == {"1.0"}

\* the attributes the caller sets; the status is the server's to report
Settable == {"name", "description"}

SetVals(a) == IF a = "description" THEN {"d1"} ELSE AttrVals(a)

\* keys of a response document that fromWire knows
WireKeys == {"id", "stack_status", "description"}

WireVals(k) ==
    CASE k = "id" -> Ids
      [] k = "description" -> {"d2"}
      [] OTHER -> AttrVals(AttrOf(k))

Docs ==
    UNION {{d \in [K -> AllVals] : \A k \in K : d[k] \in WireVals(k)} :
               K \in SUBSET WireKeys}

\* what the session does with one request: fail, or answer with a document
Responses == [ok : {FALSE}, doc : {<<>>}] \cup [ok : {TRUE}, doc : Docs]

\* ------------------------------------------------------------------------
\* utils.urljoin: joins its arguments into one path; each argument is
\* stripped of its outer slashes, an unset argument gives an empty segment
\* ------------------------------------------------------------------------
Segment(x) == IF x = None THEN <<"">> ELSE <<x>>

RECURSIVE urljoin(_)
urljoin(args) ==
    IF args = <<>> THEN <<>> ELSE Head(args) \o urljoin(Tail(args))

\* '%(stack_name)s' % {...}: string formatting writes an unset value as None
Format(x) == IF x = None THEN "None" ELSE x

\* ------------------------------------------------------------------------
\* Translator
\* ------------------------------------------------------------------------
\* body of the attributes in as, keyed by wire name; nested under the
\* resource key when prepend_key asks for the envelope
toWire(vals, as, prepend_key) ==
    LET body == [w \in {WireName(a) : a \in as} |-> vals[AttrOf(w)]]
    IN  IF prepend_key /\ resource_key # None
        THEN [k \in {resource_key} |-> body]
        ELSE body

\* attribute values after a response document is applied to them
fromWire(vals, doc) ==
    [a \in Attrs |->
        IF WireName(a) \in DOMAIN doc THEN doc[WireName(a)] ELSE vals[a]]

\* entity after Resource._translate_response(response, has_body)
translate_response(e, doc, has_body) ==
    [values |-> IF has_body THEN fromWire(e.values, doc) ELSE e.values,
     dirty |-> {},
     id |-> IF has_body /\ "id" \in DOMAIN doc THEN doc["id"] ELSE e.id,
     microversion |-> e.microversion]

\* ------------------------------------------------------------------------
\* RequestBuilder
\* ------------------------------------------------------------------------
\* Resource._prepare_request: the request of the dirty attributes, or the
\* precondition failure when an id is required and none is bound
prepare_request(e, requires_id, prepend_key, bp) ==
    IF requires_id /\ e.id = None
    THEN [ok |-> FALSE, url |-> <<>>, body |-> <<>>]
    ELSE [ok |-> TRUE,
          url |-> IF requires_id
                  THEN urljoin(<<IF bp = <<>> THEN base_path ELSE bp, <<e.id>>>>)
                  ELSE (IF bp = <<>> THEN base_path ELSE bp),
          body |-> toWire(e.values, e.dirty, prepend_key)]

\* Resource._get_id(self): the bound id, or the precondition failure
get_id(e) == [ok |-> e.id # None, id |-> e.id]

Request(method, url, body) == [method |-> method, url |-> url, body |-> body]

\* result of an operation: the entity after it, the requests it issued,
\* how it ended and what it returned
Result(e, reqs, out, r) == [entity |-> e, sent |-> reqs, outcome |-> out, ret |-> r]

Entity == [values |-> values, dirty |-> dirty, id |-> id, microversion |-> microversion]

NoReturn == [kind |-> "none", doc |-> <<>>]

ReturnEntity == [kind |-> "entity", doc |-> <<>>]

ReturnDocument(doc) == [kind |-> "document", doc |-> doc]

\* ------------------------------------------------------------------------
\* Resource: the operations of the base class that Stack inherits or calls
\* ------------------------------------------------------------------------
Resource_create(e, prepend_key, bp, resp) ==
    LET request == prepare_request(e, FALSE, prepend_key, bp)
        reqs == <<Request("POST", request.url, request.body)>>
    IN  IF ~resp.ok
        THEN Result(e, reqs, "TransportError", NoReturn)
        ELSE Result(translate_response(e, resp.doc, TRUE), reqs, "ok", ReturnEntity)

Resource_commit(e, prepend_key, has_body, bp, resp) ==
    LET request == prepare_request(e, TRUE, prepend_key, bp)
        reqs == <<Request("PUT", request.url, request.body)>>
    IN  IF ~request.ok
        THEN Result(e, <<>>, "PreconditionError", NoReturn)
        ELSE IF ~resp.ok
        THEN Result(e, reqs, "TransportError", NoReturn)
        ELSE Result(translate_response(e, resp.doc, has_body), reqs, "ok", ReturnEntity)

Resource_fetch(e, requires_id, bp, resp) ==
    LET request == prepare_request(e, requires_id, FALSE, bp)
        reqs == <<Request("GET", request.url, <<>>)>>
    IN  IF ~request.ok
        THEN Result(e, <<>>, "PreconditionError", NoReturn)
        ELSE IF ~resp.ok
        THEN Result(e, reqs, "TransportError", NoReturn)
        ELSE Result(translate_response(e, resp.doc, TRUE), reqs, "ok", ReturnEntity)

Resource_delete(e, resp) ==
    LET request == prepare_request(e, TRUE, FALSE, <<>>)
        reqs == <<Request("DELETE", request.url, <<>>)>>
    IN  IF ~request.ok
        THEN Result(e, <<>>, "PreconditionError", NoReturn)
        ELSE IF ~resp.ok
        THEN Result(e, reqs, "TransportError", NoReturn)
        ELSE Result(e, reqs, "ok", ReturnEntity)

\* ------------------------------------------------------------------------
\* Stack
\* ------------------------------------------------------------------------
\* mutant: create keeps the default envelope
Stack_create_wrapped(e, bp, resp) == Resource_create(e, TRUE, bp, resp)

Stack_create(e, bp, resp) == Resource_create(e, FALSE, bp, resp)

Stack_commit(e, bp, resp) == Resource_commit(e, FALSE, FALSE, <<>>, resp)

\* mutant: a preview hands back the document and skips the translation
Stack_update_untranslated(e, preview, mv, resp) ==
    LET request == prepare_request(e, TRUE, FALSE,
                                   <<"stacks", Format(e.values["name"])>>)
        request_url == IF preview
                       THEN urljoin(<<request.url, <<"preview">>>>)
                       ELSE request.url
        reqs == <<Request("PUT", request_url, request.body)>>
    IN  IF ~request.ok
        THEN Result(e, <<>>, "PreconditionError", NoReturn)
        ELSE IF ~resp.ok
        THEN Result(e, reqs, "TransportError", NoReturn)
        ELSE IF preview
        THEN Result(e, reqs, "ok", ReturnDocument(resp.doc))
        ELSE Result([translate_response(e, resp.doc, TRUE) EXCEPT !.microversion = mv],
                    reqs, "ok", ReturnEntity)

\* mutant: the body carries every attribute, dirty or not
Stack_update_full(e, preview, mv, resp) ==
    LET request == prepare_request(e, TRUE, FALSE,
                                   <<"stacks", Format(e.values["name"])>>)
        request_url == IF preview
                       THEN urljoin(<<request.url, <<"preview">>>>)
                       ELSE request.url
        reqs == <<Request("PUT", request_url, toWire(e.values, Attrs, FALSE))>>
    IN  IF ~request.ok
        THEN Result(e, <<>>, "PreconditionError", NoReturn)
        ELSE IF ~resp.ok
        THEN Result(e, reqs, "TransportError", NoReturn)
        ELSE Result([translate_response(e, resp.doc, TRUE) EXCEPT !.microversion = mv],
                    reqs, "ok", ReturnEntity)

\* mutant: the entity is marked clean before the session is called
Stack_update_early(e, preview, mv, resp) ==
    LET request == prepare_request(e, TRUE, FALSE,
                                   <<"stacks", Format(e.values["name"])>>)
        request_url == IF preview
                       THEN urljoin(<<request.url, <<"preview">>>>)
                       ELSE request.url
        reqs == <<Request("PUT", request_url, request.body)>>
    IN  IF ~request.ok
        THEN Result(e, <<>>, "PreconditionError", NoReturn)
        ELSE IF ~resp.ok
        THEN Result([e EXCEPT !.dirty = {}, !.microversion = mv],
                    reqs, "TransportError", NoReturn)
        ELSE Result([translate_response(e, resp.doc, TRUE) EXCEPT !.microversion = mv],
                    reqs, "ok", ReturnEntity)

Stack_update(e, preview, mv, resp) ==
    LET request == prepare_request(e, TRUE, FALSE,
                                   <<"stacks", Format(e.values["name"])>>)
        request_url == IF preview
                       THEN urljoin(<<request.url, <<"preview">>>>)
                       ELSE request.url
        reqs == <<Request("PUT", request_url, request.body)>>
    IN  IF ~request.ok
        THEN Result(e, <<>>, "PreconditionError", NoReturn)
        ELSE IF ~resp.ok
        THEN Result(e, reqs, "TransportError", NoReturn)
        ELSE Result([translate_response(e, resp.doc, TRUE) EXCEPT !.microversion = mv],
                    reqs, "ok", ReturnEntity)

\* mutant: the url is built from the id attribute without asking for it
action_unchecked(e, body, resp) ==
    LET url == urljoin(<<base_path, Segment(e.id), <<"actions">>>>)
        reqs == <<Request("POST", url, body)>>
    IN  IF ~resp.ok
        THEN Result(e, reqs, "TransportError", NoReturn)
        ELSE Result(e, reqs, "ok", ReturnDocument(resp.doc))

\* mutant: the response of an action is translated into the entity
action_translated(e, body, resp) ==
    LET i == get_id(e)
        url == urljoin(<<base_path, <<i.id>>, <<"actions">>>>)
        reqs == <<Request("POST", url, body)>>
    IN  IF ~i.ok
        THEN Result(e, <<>>, "PreconditionError", NoReturn)
        ELSE IF ~resp.ok
        THEN Result(e, reqs, "TransportError", NoReturn)
        ELSE Result(translate_response(e, resp.doc, TRUE), reqs, "ok",
                    ReturnDocument(resp.doc))

action(e, body, resp) ==
    LET i == get_id(e)
        url == urljoin(<<base_path, <<i.id>>, <<"actions">>>>)
        reqs == <<Request("POST", url, body)>>
    IN  IF ~i.ok
        THEN Result(e, <<>>, "PreconditionError", NoReturn)
        ELSE IF ~resp.ok
        THEN Result(e, reqs, "TransportError", NoReturn)
        ELSE Result(e, reqs, "ok", ReturnDocument(resp.doc))

check(e, resp) == action(e, [k \in {"check"} |-> ""], resp)

\* mutant: id and name change places in the path
abandon_swapped(e, resp) ==
    LET i == get_id(e)
        url == urljoin(<<base_path, <<i.id>>, Segment(e.values["name"]), <<"abandon">>>>)
        reqs == <<Request("DELETE", url, <<>>)>>
    IN  IF ~i.ok
        THEN Result(e, <<>>, "PreconditionError", NoReturn)
        ELSE IF ~resp.ok
        THEN Result(e, reqs, "TransportError", NoReturn)
        ELSE Result(e, reqs, "ok", ReturnDocument(resp.doc))

abandon(e, resp) ==
    LET i == get_id(e)
        url == urljoin(<<base_path, Segment(e.values["name"]), <<i.id>>, <<"abandon">>>>)
        reqs == <<Request("DELETE", url, <<>>)>>
    IN  IF ~i.ok
        THEN Result(e, <<>>, "PreconditionError", NoReturn)
        ELSE IF ~resp.ok
        THEN Result(e, reqs, "TransportError", NoReturn)
        ELSE Result(e, reqs, "ok", ReturnDocument(resp.doc))

\* mutant: only the completed deletion counts as absent
Stack_fetch_deleted_only(e, requires_id, bp, resp) ==
    LET stk == Resource_fetch(e, requires_id, bp, resp)
    IN  IF stk.outcome = "ok" /\ stk.entity.values["status"] \in {"DELETE_COMPLETE"}
        THEN Result(stk.entity, stk.sent, "NotFound", NoReturn)
        ELSE stk

\* mutant: the status is read off the response and the entity is left alone
Stack_fetch_restored(e, requires_id, bp, resp) ==
    LET stk == Resource_fetch(e, requires_id, bp, resp)
    IN  IF stk.outcome = "ok" /\ stk.entity.values["status"] \in TerminalStatuses
        THEN Result(e, stk.sent, "NotFound", NoReturn)
        ELSE stk

Stack_fetch(e, requires_id, bp, resp) ==
    LET stk == Resource_fetch(e, requires_id, bp, resp)
    IN  IF stk.outcome = "ok" /\ stk.entity.values["status"] \in TerminalStatuses
        THEN Result(stk.entity, stk.sent, "NotFound", NoReturn)
        ELSE stk

\* ------------------------------------------------------------------------
\* The caller
\* ------------------------------------------------------------------------
NoResponse == [ok |-> FALSE, doc |-> <<>>]

Call(op, preview, requires_id, bp, resp) ==
    [op |-> op, preview |-> preview, requires_id |-> requires_id,
     base_path |-> bp, resp |-> resp]

\* the operations whose successful response is a sync of the entity
SyncOps == {"create", "commit", "update", "fetch"}

\* one invocation: the entity becomes the result's, the invocation is recorded
Invoke(c, r) ==
    /\ values' = r.entity.values
    /\ dirty' = r.entity.dirty
    /\ id' = r.entity.id
    /\ microversion' = r.entity.microversion
    /\ mutated' = IF c.op \in SyncOps /\ r.sent # <<>> /\ c.resp.ok
                  THEN {} ELSE mutated
    /\ call' = c
    /\ pre' = [entity |-> Entity, mutated |-> mutated]
    /\ sent' = r.sent
    /\ outcome' = r.outcome
    /\ ret' = r.ret

\* an attribute setter
SetAttr ==
    \E a \in Settable : \E v \in SetVals(a) :
        /\ values' = [values EXCEPT ![a] = v]
        /\ dirty' = dirty \cup {a}
        /\ mutated' = mutated \cup {a}
        /\ call' = Call("set", FALSE, FALSE, <<>>, NoResponse)
        /\ pre' = [entity |-> Entity, mutated |-> mutated]
        /\ sent' = <<>>
        /\ outcome' = "ok"
        /\ ret' = NoReturn
        /\ UNCHANGED <<id, microversion>>

Create ==
    \E bp \in BasePathArgs : \E resp \in Responses :
        Invoke(Call("create", FALSE, FALSE, bp, resp), Stack_create(Entity, bp, resp))

Commit ==
    \E bp \in BasePathArgs : \E resp \in Responses :
        Invoke(Call("commit", FALSE, TRUE, bp, resp), Stack_commit(Entity, bp, resp))

Update ==
    \E preview \in BOOLEAN : \E mv \in Microversions : \E resp \in Responses :
        Invoke(Call("update", preview, TRUE, <<>>, resp),
               Stack_update(Entity, preview, mv, resp))

Fetch ==
    \E requires_id \in BOOLEAN : \E bp \in BasePathArgs : \E resp \in Responses :
        Invoke(Call("fetch", FALSE, requires_id, bp, resp),
               Stack_fetch(Entity, requires_id, bp, resp))

Delete ==
    \E resp \in Responses :
        Invoke(Call("delete", FALSE, TRUE, <<>>, resp), Resource_delete(Entity, resp))

Check ==
    \E resp \in Responses :
        Invoke(Call("check", FALSE, TRUE, <<>>, resp), check(Entity, resp))

Abandon ==
    \E resp \in Responses :
        Invoke(Call("abandon", FALSE, TRUE, <<>>, resp), abandon(Entity, resp))

\* an entity as constructed: empty, or with an id and a name, nothing dirty
Init ==
    /\ values \in {v \in [Attrs -> AllVals \cup {None}] :
                      /\ v["name"] \in AttrVals("name") \cup {None}
                      /\ v["status"] = None
                      /\ v["description"] = None}
    /\ dirty = {}
    /\ id \in Ids \cup {None}
    /\ microversion = None
    /\ mutated = {}
    /\ call = Call("init", FALSE, FALSE, <<>>, NoResponse)
    /\ pre = [entity |-> Entity, mutated |-> mutated]
    /\ sent = <<>>
    /\ outcome = "ok"
    /\ ret = NoReturn

Next ==
    \/ SetAttr
    \/ Create
    \/ Commit
    \/ Update
    \/ Fetch
    \/ Delete
    \/ Check
    \/ Abandon

Spec == Init /\ [][Next]_vars

TypeOK ==
    /\ dirty \subseteq Attrs
    /\ id \in Ids \cup {None}
    /\ Len(sent) <= 1

\* ------------------------------------------------------------------------
\* Properties
\* ------------------------------------------------------------------------
\* the request the last operation handed to the session
Req == sent[1]

\* the last operation reached the session and the session answered
Answered == sent # <<>> /\ call.resp.ok

\* the last operation reached the session and the session failed
Failed == sent # <<>> /\ ~call.resp.ok

\* the values before the operation, overwritten by the attributes the
\* response document carries
Overwritten(a) ==
    IF WireName(a) \in DOMAIN call.resp.doc
    THEN call.resp.doc[WireName(a)]
    ELSE pre.entity.values[a]

\* values, dirty set and id are those of before the operation
EntityUntouched ==
    /\ values = pre.entity.values
    /\ dirty = pre.entity.dirty
    /\ id = pre.entity.id

\* C1: a fetch that the session answered fails with NotFound exactly when
\* the fetched status is DELETE_COMPLETE or ADOPT_COMPLETE, and otherwise
\* returns the entity populated from the response; a fetch never returns an
\* entity with such a status.
C1_FetchTerminalIsNotFound ==
    (call.op = "fetch" /\ Answered) =>
        /\ ("stack_status" \in DOMAIN call.resp.doc
              /\ call.resp.doc["stack_status"] \in TerminalStatuses)
             => outcome = "NotFound"
        /\ (outcome = "NotFound") <=> (values["status"] \in TerminalStatuses)
        /\ outcome # "NotFound" =>
             /\ outcome = "ok"
             /\ ret.kind = "entity"
             /\ \A a \in Attrs : values[a] = Overwritten(a)
        /\ ret.kind = "entity" => values["status"] \notin TerminalStatuses

C1_Witness ==
    /\ call.op = "fetch"
    /\ Answered
    /\ "stack_status" \in DOMAIN call.resp.doc
    /\ call.resp.doc["stack_status"] = "ADOPT_COMPLETE"
    /\ outcome = "NotFound"

\* C2 as stated: update with preview sends to <identity>/preview, leaves the
\* values and the dirty set as they were and returns the response document.
C2_PreviewLeavesEntity ==
    (call.op = "update" /\ call.preview /\ sent # <<>>) =>
        /\ Req.url[Len(Req.url)] = "preview"
        /\ Req.url[Len(Req.url) - 1] = pre.entity.id
        /\ call.resp.ok => (EntityUntouched /\ ret.kind = "document")

\* C2 amended: update with preview sends one PUT to <identity>/preview; when
\* the session answers, the response is translated into the entity as for a
\* plain update (values overwritten by the response, dirty set cleared) and
\* the entity is returned; when the session fails the entity is untouched.
C2_PreviewTranslates ==
    (call.op = "update" /\ call.preview /\ sent # <<>>) =>
        /\ Len(sent) = 1
        /\ Req.method = "PUT"
        /\ Len(Req.url) >= 2
        /\ Req.url[Len(Req.url)] = "preview"
        /\ Req.url[Len(Req.url) - 1] = pre.entity.id
        /\ call.resp.ok =>
             /\ outcome = "ok"
             /\ ret.kind = "entity"
             /\ \A a \in Attrs : values[a] = Overwritten(a)
             /\ dirty = {}
        /\ ~call.resp.ok => EntityUntouched

C2_Witness ==
    /\ call.op = "update"
    /\ call.preview
    /\ Answered
    /\ pre.entity.dirty # {}
    /\ values # pre.entity.values

\* C3: the body of every commit and update holds exactly the attributes
\* mutated since the last successful sync, with their current values, and
\* nothing else; after a successful commit or update without preview the
\* dirty set is empty.
C3_CommitSendsDirtyOnly ==
    (call.op \in {"commit", "update"} /\ sent # <<>>) =>
        /\ DOMAIN Req.body = {WireName(a) : a \in pre.mutated}
        /\ \A a \in pre.mutated : Req.body[WireName(a)] = pre.entity.values[a]
        /\ (call.resp.ok /\ ~call.preview) => (outcome = "ok" /\ dirty = {})

C3_Witness ==
    /\ call.op = "commit"
    /\ Answered
    /\ pre.mutated = {"description"}
    /\ pre.entity.values["name"] # None
    /\ DOMAIN Req.body = {"description"}
    /\ dirty = {}

\* the operations that need the identity of the entity
NeedsId ==
    \/ call.op \in {"commit", "update", "delete", "check", "abandon"}
    \/ call.op = "fetch" /\ call.requires_id

C5_ActionPaths ==
    /\ (call.op = "check" /\ pre.entity.id # None) =>
          /\ Len(sent) = 1
          /\ Req.method = "POST"
          /\ Req.url = <<"stacks", pre.entity.id, "actions">>
          /\ DOMAIN Req.body = {"check"}
          /\ Req.body["check"] = ""
    /\ (call.op = "abandon" /\ pre.entity.id # None) =>
          /\ Len(sent) = 1
          /\ Req.method = "DELETE"
          /\ Len(Req.url) = 4
          /\ Req.url[1] = "stacks"
          /\ Req.url[2] = (IF pre.entity.values["name"] = None
                           THEN "" ELSE pre.entity.values["name"])
          /\ Req.url[3] = pre.entity.id
          /\ Req.url[4] = "abandon"

C5_Witness ==
    /\ call.op = "abandon"
    /\ sent # <<>>
    /\ pre.entity.values["name"] = "n1"
    /\ Req.url = <<"stacks", "n1", "i1", "abandon">>

\* C6: the body of every request of create, commit and update is the bare
\* attribute map; it is never nested under the resource key 'stack'.
C6_BodyUnwrapped ==
    (call.op \in {"create", "commit", "update"} /\ sent # <<>>) =>
        /\ resource_key \notin DOMAIN Req.body
        /\ DOMAIN Req.body \subseteq {WireName(a) : a \in Attrs}

C6_Witness ==
    /\ call.op = "create"
    /\ sent # <<>>
    /\ "description" \in DOMAIN Req.body

\* the operations that talk to the session
SessionOps == {"create", "fetch", "commit", "update", "check", "abandon"}

\* C7: when the session call of an operation fails, the operation ends with
\* the session's error, has made that one call only, and values, dirty set
\* and id are as before; no operation makes more than one session call.
C7_FailureLeavesEntity ==
    /\ Len(sent) <= 1
    /\ (call.op \in SessionOps /\ Failed) =>
          /\ outcome = "TransportError"
          /\ ret.kind = "none"
          /\ EntityUntouched

C7_Witness ==
    /\ call.op = "update"
    /\ Failed
    /\ pre.entity.dirty # {}
    /\ outcome = "TransportError"

\* C8: check and abandon return the response document as the session gave
\* it and leave values, dirty set and id as they were.
C8_ActionsReturnDocument ==
    (call.op \in {"check", "abandon"} /\ Answered) =>
        /\ outcome = "ok"
        /\ ret.kind = "document"
        /\ ret.doc = call.resp.doc
        /\ EntityUntouched

C8_Witness ==
    /\ call.op = "check"
    /\ Answered
    /\ "description" \in DOMAIN call.resp.doc
    /\ pre.entity.dirty # {}
    /\ ret.kind = "document"

\* C9 as stated: after a fetch that failed with the logical NotFound the
\* values and the dirty set are those of before the fetch.
C9_NotFoundLeavesEntity ==
    (call.op = "fetch" /\ outcome = "NotFound") =>
        (values = pre.entity.values /\ dirty = pre.entity.dirty)

\* C9 amended: a fetch that fails with the logical NotFound has already
\* translated the response into the entity: the values are those of before
\* overwritten by the attributes of the response, the stored status is the
\* terminal one and the dirty set is empty.
C9_NotFoundAfterTranslation ==
    (call.op = "fetch" /\ outcome = "NotFound") =>
        /\ Answered
        /\ \A a \in Attrs : values[a] = Overwritten(a)
        /\ values["status"] \in TerminalStatuses
        /\ dirty = {}

C9_Witness ==
    /\ call.op = "fetch"
    /\ outcome = "NotFound"
    /\ pre.entity.dirty # {}
    /\ pre.entity.values["status"] \notin TerminalStatuses
    /\ values # pre.entity.values

\* C10: the request of create, commit and fetch called with an alternate
\* base path is built against that path.
C10_BasePathHonoured ==
    (call.op \in {"create", "commit", "fetch"} /\ call.base_path # <<>> /\ sent # <<>>) =>
        /\ Len(Req.url) >= Len(call.base_path)
        /\ SubSeq(Req.url, 1, Len(call.base_path)) = call.base_path

====
